---------------------------- MODULE Spec2Model ----------------------------
(***************************************************************************)
(* Model of bundled-skills/nano-banana-pro/scripts/generate_image.py:      *)
(* one run of main() from the parsed arguments to the process exit, with   *)
(* its side effects (directory creation, input file reads, the HTTPS POST, *)
(* the output file write, the lines printed) recorded in program order.    *)
(***************************************************************************)
EXTENDS Integers, Sequences, FiniteSets, TLC

VARIABLES
    args,               \* argparse namespace (line 102)
    environ,            \* os.environ["OPENROUTER_API_KEY"], "" when unset
    pc,                 \* position of main()
    api_key,            \* line 105
    output_resolution,  \* line 121
    content_parts,      \* line 122
    max_input_dim,      \* line 130
    loaded,             \* number of completed iterations of the loop at 131
    payload,            \* <<>> until built at line 160, then <<payload>>
    data,               \* <<>> until line 193, then <<parsed JSON>>
    image_saved,        \* line 202
    image_bytes,        \* <<>> or <<bytes>>: lines 230, 244 and save_image's argument
    out_file,           \* <<>> or <<image>>: the file at output_path
    effects,            \* filesystem and network operations, in order
    stdout,             \* lines printed to standard output, in order
    failure,            \* which fatal path ended the run ("none" otherwise)
    exit_code           \* -1 while running, then the process exit status

vars == <<args, environ, pc, api_key, output_resolution, content_parts,
          max_input_dim, loaded, payload, data, image_saved, image_bytes,
          out_file,
          effects, stdout, failure, exit_code>>

---------------------------------------------------------------------------
(* Bounds of the model *)

\* longest input-image list enumerated in full
MaxInputLen == 2
\* longest message.images / message.content list enumerated in full
MaxReplyLen == 2

(* Program constants *)

MaxInputImages == 14
Dim4K == 3000
Dim2K == 1500

OPENROUTER_URL == "https://openrouter.ai/api/v1/chat/completions"
DEFAULT_MODEL == "google/gemini-3.1-flash-image-preview"
DefaultResolution == "1K"
ResolutionChoices == {"0.5K", "1K", "2K", "4K"}

---------------------------------------------------------------------------
(* Generic helpers *)

Max2(a, b) == IF a >= b THEN a ELSE b

Max3(a, b, c) == Max2(Max2(a, b), c)

SeqsUpTo(S, n) == UNION {[1..k -> S] : k \in 0..n}

Last(s) == s[Len(s)]

---------------------------------------------------------------------------
(* Paths.  A path is the sequence of its components; the current          *)
(* directory of the process is Cwd.                                        *)

Cwd == <<"/", "work">>

\* Path.parent
Parent(p) == SubSeq(p, 1, Len(p) - 1)

\* Path.resolve() of a relative path
Resolve(p) == Cwd \o p

---------------------------------------------------------------------------
(* The input files on disk: what PILImage.open(img_path) finds.           *)

Files ==
    [p \in {"small.png", "tiny.png", "edge2k.png", "below4k.png",
            "edge4k.png", "missing.png"} |->
        CASE p = "small.png"   -> [ok |-> TRUE,  width |-> 800,  height |-> 600]
          [] p = "tiny.png"    -> [ok |-> TRUE,  width |-> 1499, height |-> 1499]
          [] p = "edge2k.png"  -> [ok |-> TRUE,  width |-> 1200, height |-> 1500]
          [] p = "below4k.png" -> [ok |-> TRUE,  width |-> 2999, height |-> 1000]
          [] p = "edge4k.png"  -> [ok |-> TRUE,  width |-> 3000, height |-> 2000]
          [] OTHER             -> [ok |-> FALSE, width |-> 0,    height |-> 0]]

InputPaths == DOMAIN Files

\* Lists longer than MaxInputLen: the input paths repeated in a fixed cycle.
CyclePaths == <<"small.png", "edge2k.png", "tiny.png", "below4k.png">>

CycleList(n) == [i \in 1..n |-> CyclePaths[((i - 1) % Len(CyclePaths)) + 1]]

LongLists ==
    {CycleList(MaxInputImages), CycleList(MaxInputImages + 1),
     [CycleList(MaxInputImages) EXCEPT ![MaxInputImages] = "missing.png"]}

InputLists == SeqsUpTo(InputPaths, MaxInputLen) \cup LongLists

---------------------------------------------------------------------------
(* URLs.  A URL is its scheme and what follows the first comma (data      *)
(* URLs) or the scheme (others).                                          *)

DataUrl(b64) == [scheme |-> "data", body |-> b64]

HttpUrl == [scheme |-> "https", body |-> "cdn.example/x.png"]

EmptyUrl == [scheme |-> "", body |-> ""]

\* a test for a non-empty URL in place of the "data:" prefix
IsDataUrlAnyUrl(url) == url.scheme # ""

\* image_url.startswith("data:")
IsDataUrl(url) == url.scheme = "data"

---------------------------------------------------------------------------
(* Raster images.  An image is its PIL mode and the bands of one pixel;   *)
(* a palette image holds an index into Palette.                           *)

Levels == {0, 100, 255}

Alphas == {0, 128, 255}

Palette == <<<<0, 0, 0>>, <<255, 100, 0>>, <<255, 255, 255>>>>

Modes == {"RGBA", "RGB", "L", "LA", "P"}

PixelsOf(mode) ==
    CASE mode = "RGBA" -> {<<r, g, b, a>> : r \in Levels, g \in Levels,
                                            b \in Levels, a \in Alphas}
      [] mode = "RGB"  -> {<<r, g, b>> : r \in Levels, g \in Levels, b \in Levels}
      [] mode = "L"    -> {<<l>> : l \in Levels}
      [] mode = "LA"   -> {<<l, a>> : l \in Levels, a \in Alphas}
      [] OTHER         -> {<<i>> : i \in 1..Len(Palette)}

Images == UNION {{[mode |-> m, px |-> p] : p \in PixelsOf(m)} : m \in Modes}

\* Bytes that PIL cannot identify as an image
Junk == [ok |-> FALSE, image |-> [mode |-> "", px |-> <<>>]]

\* The encoded bytes of an image
BytesOf(img) == [ok |-> TRUE, image |-> img]

ImageBytes == {BytesOf(img) : img \in Images} \cup {Junk}

\* Paste.c, DIV255
Div255(a) == (((a + 128) \div 256) + (a + 128)) \div 256

\* Paste.c, BLEND: bg where the mask is 0, fg where it is 255
Blend(mask, bg, fg) == Div255(bg * (255 - mask) + fg * mask)

\* lines 56-57: PILImage.new('RGB', size, (255, 255, 255)), then
\* paste(image, mask=image.split()[3])
PasteOnWhite(image) ==
    [mode |-> "RGB",
     px   |-> <<Blend(image.px[4], 255, image.px[1]),
                Blend(image.px[4], 255, image.px[2]),
                Blend(image.px[4], 255, image.px[3])>>]

\* image.convert('RGB') of a mode other than RGB and RGBA: the grey level
\* or the palette entry becomes the colour; an alpha band is dropped
ConvertRGB(image) ==
    [mode |-> "RGB",
     px   |-> IF image.mode \in {"L", "LA"}
              THEN <<image.px[1], image.px[1], image.px[1]>>
              ELSE Palette[image.px[1]]]

\* save_image: what is written at output_path, or the exception
save_image(bytes) ==
    IF ~bytes.ok
    THEN [raised |-> TRUE, file |-> <<>>]
    ELSE LET image == bytes.image IN
         [raised |-> FALSE,
          file   |-> << IF image.mode = "RGBA" THEN PasteOnWhite(image)
                        ELSE IF image.mode = "RGB" THEN image
                        ELSE ConvertRGB(image) >>]

---------------------------------------------------------------------------
(* base64 payloads of the data URLs a reply may carry, and the bytes      *)
(* base64.b64decode gives for each.                                       *)

ReplyBodies == {"b64-rgba", "b64-grey", "b64-junk"}

b64decode(body) ==
    CASE body = "b64-rgba" -> BytesOf([mode |-> "RGBA", px |-> <<255, 100, 0, 128>>])
      [] body = "b64-grey" -> BytesOf([mode |-> "L", px |-> <<100>>])
      [] OTHER             -> Junk

\* base64 of the PNG re-encoding of an input file (lines 44-47)
b64encode(img_path) == <<"png", img_path>>

\* image_to_base64_url: (data_url, (width, height)); called on loadable files
image_to_base64_url(img_path) ==
    [data_url |-> DataUrl(b64encode(img_path)),
     width    |-> Files[img_path].width,
     height   |-> Files[img_path].height]

\* a load error that is swallowed
LoadableAlways(img_path) == TRUE

\* whether image_to_base64_url(img_path) returns rather than raises
Loadable(img_path) == Files[img_path].ok

---------------------------------------------------------------------------
(* The JSON a reply may hold.  A list entry is a dict (isdict) with its   *)
(* "type", "text" and image_url.url (EmptyUrl when absent), or a value    *)
(* that is no dict.  A message content is a string (isstr) or a list.     *)

NotADict == [isdict |-> FALSE, type |-> "", text |-> "", url |-> EmptyUrl]

TextPart(text) == [isdict |-> TRUE, type |-> "text", text |-> text, url |-> EmptyUrl]

ImagePart(url) == [isdict |-> TRUE, type |-> "image_url", text |-> "", url |-> url]

\* the URLs of a reply's entries; EmptyUrl: a dict without image_url.url
ReplyUrls == {DataUrl(b) : b \in ReplyBodies} \cup {HttpUrl, EmptyUrl}

ImageEntries == {ImagePart(u) : u \in ReplyUrls} \cup {NotADict}

ContentEntries == ImageEntries \cup {TextPart("Here is your image.")}

StrContent(text) == [isstr |-> TRUE, text |-> text, parts |-> <<>>]

ListContent(parts) == [isstr |-> FALSE, text |-> "", parts |-> parts]

Contents ==
    {StrContent(""), StrContent("Sorry, I can't generate that.")}
        \cup {ListContent(ps) : ps \in SeqsUpTo(ContentEntries, MaxReplyLen)}

Message(content, images) == [content |-> content, images |-> images]

Messages ==
    {Message(c, im) : c \in Contents, im \in SeqsUpTo(ImageEntries, MaxReplyLen)}

OkReply(choices) == [kind |-> "ok", choices |-> choices]

ErrorReplies ==
    {[kind |-> k, choices |-> <<>>] :
        k \in {"status_error", "transport_error", "bad_json"}}

\* every reply shape within MaxReplyLen
AllReplies ==
    ErrorReplies \cup {OkReply(<<>>)}
        \cup {OkReply(<<[message |-> m]>>) : m \in Messages}

\* one reply of each kind, among them a second choice that is never read
SampleReplies ==
    ErrorReplies \cup
    {OkReply(<<>>),
     OkReply(<<[message |-> Message(StrContent("Sorry, I can't generate that."), <<>>)]>>),
     OkReply(<<[message |-> Message(StrContent(""),
                                    <<ImagePart(DataUrl("b64-rgba"))>>)]>>),
     OkReply(<<[message |-> Message(StrContent(""),
                                    <<ImagePart(DataUrl("b64-junk"))>>)]>>),
     OkReply(<<[message |-> Message(ListContent(<<TextPart("Here is your image."),
                                                  ImagePart(DataUrl("b64-grey"))>>),
                                    <<>>)]>>),
     OkReply(<<[message |-> Message(StrContent(""), <<>>)],
               [message |-> Message(StrContent(""),
                                    <<ImagePart(DataUrl("b64-rgba"))>>)]>>)}

---------------------------------------------------------------------------
(* Command lines *)

Prompts == {"a red fox", "make it night"}

Filenames == {<<"out.png">>, <<"gen", "art", "out.png">>}

ArgSpace ==
    [prompt       : Prompts,
     filename     : Filenames,
     input_images : InputLists,
     resolution   : ResolutionChoices,
     api_key      : {"", "sk-arg"},
     model        : {DEFAULT_MODEL}]

\* The reply space is explored in full for the plainest command line; the
\* code after line 200 reads nothing of the request but output_path.
PlainRun ==
    /\ args.input_images = <<>>
    /\ args.resolution = DefaultResolution
    /\ args.prompt = "a red fox"
    /\ args.filename = <<"out.png">>
    /\ args.api_key = "sk-arg"
    /\ environ = ""

Replies == IF PlainRun THEN AllReplies ELSE SampleReplies

---------------------------------------------------------------------------
(* Pure parts of main() *)

\* get_api_key: the argument first, then the environment
get_api_key(provided_key) == IF provided_key # "" THEN provided_key ELSE environ

\* the thresholds compared with > in place of >=
AutoDetectStrict(resolution, dim) ==
    IF resolution = "1K" /\ dim > 0
    THEN IF dim > Dim4K THEN "4K"
         ELSE IF dim > Dim2K THEN "2K"
         ELSE "1K"
    ELSE resolution

\* lines 145-151: the resolution after the loop over the input images
AutoDetect(resolution, dim) ==
    IF resolution = "1K" /\ dim > 0
    THEN IF dim >= Dim4K THEN "4K"
         ELSE IF dim >= Dim2K THEN "2K"
         ELSE "1K"
    ELSE resolution

\* the prompt put first, before the images
AddTextPromptFirst(parts, prompt) == <<[type |-> "text", text |-> prompt]>> \o parts

\* line 155
AddTextPrompt(parts, prompt) == Append(parts, [type |-> "text", text |-> prompt])

\* lines 134-137
ImageUrlPart(data_url) == [type |-> "image_url", image_url |-> [url |-> data_url]]

\* lines 160-170
BuildPayload(model, parts, resolution) ==
    [model        |-> model,
     messages     |-> <<[role |-> "user", content |-> parts]>>,
     modalities   |-> <<"image", "text">>,
     image_config |-> [image_size |-> resolution],
     stream       |-> FALSE]

Line(kind, arg, n) == [line |-> kind, arg |-> arg, n |-> n]

\* lines 212-220: the "Model response" lines
RECURSIVE TextLines(_)
TextLines(parts) ==
    IF parts = <<>> THEN <<>>
    ELSE LET part == Head(parts) IN
         (IF part.isdict /\ part.type = "text" /\ part.text # ""
          THEN <<Line("Model response", <<part.text>>, 0)>>
          ELSE <<>>) \o TextLines(Tail(parts))

ModelResponseLines(content) ==
    IF content.isstr
    THEN IF content.text # "" THEN <<Line("Model response", <<content.text>>, 0)>>
         ELSE <<>>
    ELSE TextLines(content.parts)

\* a loop without its break: the last data-URL entry wins
RECURSIVE ScanImagesLast(_, _)
ScanImagesLast(images, i) ==
    IF i > Len(images) THEN 0
    ELSE LET later == ScanImagesLast(images, i + 1) IN
         IF later # 0 THEN later
         ELSE IF images[i].isdict /\ images[i].url.scheme = "data" THEN i
         ELSE 0

\* lines 224-228: the index of the entry the loop over message.images
\* stops at, 0 when it runs to the end
RECURSIVE ScanImages(_, _)
ScanImages(images, i) ==
    IF i > Len(images) THEN 0
    ELSE IF ~images[i].isdict THEN ScanImages(images, i + 1)
    ELSE IF IsDataUrl(images[i].url) THEN i
    ELSE ScanImages(images, i + 1)

\* lines 237-242: the same for the content list
RECURSIVE ScanContent(_, _)
ScanContent(parts, i) ==
    IF i > Len(parts) THEN 0
    ELSE IF ~parts[i].isdict THEN ScanContent(parts, i + 1)
    ELSE IF parts[i].type = "image_url" /\ IsDataUrl(parts[i].url) THEN i
    ELSE ScanContent(parts, i + 1)

\* the fallback without its "not image_saved"
FallbackIgnoresSaved(saved, content) == ~content.isstr

\* line 236
FallbackApplies(saved, content) == ~saved /\ ~content.isstr

\* the MEDIA line given the path as typed, not resolved
SuccessLinesUnresolved(output_path) ==
    <<Line("Image saved", Resolve(output_path), 0),
      Line("MEDIA", output_path, 0)>>

\* lines 251-253
SuccessLines(output_path) ==
    <<Line("Image saved", Resolve(output_path), 0),
      Line("MEDIA", Resolve(output_path), 0)>>

\* success reported whether or not an image was saved
FinalStatusIgnoresSaved(saved) == 0

\* lines 249-257
FinalStatus(saved) == IF saved THEN 0 ELSE 1

---------------------------------------------------------------------------
(* main(), from line 102 *)

\* line 117
output_path == args.filename

Op(op, target) == [op |-> op, target |-> target]

\* sys.exit(code), or the interpreter ending on an uncaught exception
Exit(code, why) ==
    /\ pc' = "exited"
    /\ exit_code' = code
    /\ failure' = why

Init ==
    /\ args \in ArgSpace
    /\ environ \in {"", "sk-env"}
    /\ pc = "start"
    /\ api_key = ""
    /\ output_resolution = ""
    /\ content_parts = <<>>
    /\ max_input_dim = 0
    /\ loaded = 0
    /\ payload = <<>>
    /\ data = <<>>
    /\ image_saved = FALSE
    /\ image_bytes = <<>>
    /\ out_file = <<>>
    /\ effects = <<>>
    /\ stdout = <<>>
    /\ failure = "none"
    /\ exit_code = -1

\* lines 105-111
GetApiKey ==
    /\ pc = "start"
    /\ api_key' = get_api_key(args.api_key)
    /\ IF api_key' = ""
       THEN Exit(1, "MissingCredential")
       ELSE pc' = "mkdir" /\ UNCHANGED <<exit_code, failure>>
    /\ UNCHANGED <<args, environ, output_resolution, content_parts,
                   max_input_dim, loaded, payload, data, image_saved,
                   image_bytes, out_file, effects, stdout>>

\* lines 117-118
SetUpOutputPath ==
    /\ pc = "mkdir"
    /\ effects' = Append(effects, Op("mkdir", Parent(output_path)))
    /\ pc' = "inputs"
    /\ UNCHANGED <<args, environ, api_key, output_resolution, content_parts,
                   max_input_dim, loaded, payload, data, image_saved,
                   image_bytes, out_file, stdout, failure, exit_code>>

\* lines 121-130
CheckInputImages ==
    /\ pc = "inputs"
    /\ output_resolution' = args.resolution
    /\ content_parts' = <<>>
    /\ IF args.input_images # <<>>
       THEN IF Len(args.input_images) > MaxInputImages
            THEN Exit(1, "TooManyInputImages")
            ELSE pc' = "load" /\ UNCHANGED <<exit_code, failure>>
       ELSE pc' = "build" /\ UNCHANGED <<exit_code, failure>>
    /\ max_input_dim' = 0
    /\ UNCHANGED <<args, environ, api_key, loaded, payload, data, image_saved,
                   image_bytes, out_file, effects, stdout>>

\* lines 131-142: one iteration of the loop
LoadInputImage ==
    /\ pc = "load"
    /\ loaded < Len(args.input_images)
    /\ LET img_path == args.input_images[loaded + 1] IN
       /\ effects' = Append(effects, Op("read", <<img_path>>))
       /\ IF Loadable(img_path)
          THEN LET r == image_to_base64_url(img_path) IN
               /\ content_parts' = Append(content_parts, ImageUrlPart(r.data_url))
               /\ stdout' = Append(stdout, Line("Loaded input image", <<img_path>>, 0))
               /\ max_input_dim' = Max3(max_input_dim, r.width, r.height)
               /\ loaded' = loaded + 1
               /\ UNCHANGED <<pc, exit_code, failure>>
          ELSE /\ Exit(1, "ImageLoadError")
               /\ UNCHANGED <<content_parts, stdout, max_input_dim, loaded>>
    /\ UNCHANGED <<args, environ, api_key, output_resolution, payload, data,
                   image_saved, image_bytes, out_file>>

\* lines 144-152: after the loop
AutoDetectResolution ==
    /\ pc = "load"
    /\ loaded = Len(args.input_images)
    /\ output_resolution' = AutoDetect(args.resolution, max_input_dim)
    /\ stdout' = IF args.resolution = "1K" /\ max_input_dim > 0
                 THEN Append(stdout, Line("Auto-detected resolution",
                                          <<output_resolution'>>, max_input_dim))
                 ELSE stdout
    /\ pc' = "build"
    /\ UNCHANGED <<args, environ, api_key, content_parts, max_input_dim, loaded,
                   payload, data, image_saved, image_bytes, out_file, effects,
                   failure, exit_code>>

\* lines 154-183
BuildRequest ==
    /\ pc = "build"
    /\ content_parts' = AddTextPrompt(content_parts, args.prompt)
    /\ payload' = <<BuildPayload(args.model, content_parts', output_resolution)>>
    /\ stdout' = Append(stdout,
                        IF args.input_images # <<>>
                        THEN Line("Processing", <<output_resolution>>,
                                  Len(args.input_images))
                        ELSE Line("Generating image", <<output_resolution>>, 0))
    /\ pc' = "post"
    /\ UNCHANGED <<args, environ, api_key, output_resolution, max_input_dim,
                   loaded, data, image_saved, image_bytes, out_file, effects,
                   failure, exit_code>>

\* lines 185-199: the one httpx.post and what comes back
Post ==
    /\ pc = "post"
    /\ effects' = Append(effects, Op("post", <<OPENROUTER_URL>>))
    /\ \E reply \in Replies :
        IF reply.kind = "status_error"
        THEN Exit(1, "ApiStatusError") /\ UNCHANGED data
        ELSE IF reply.kind \in {"transport_error", "bad_json"}
        THEN Exit(1, "TransportError") /\ UNCHANGED data
        ELSE /\ data' = <<[choices |-> reply.choices]>>
             /\ pc' = "parse"
             /\ UNCHANGED <<exit_code, failure>>
    /\ UNCHANGED <<args, environ, api_key, output_resolution, content_parts,
                   max_input_dim, loaded, payload, image_saved, image_bytes,
                   out_file, stdout>>

\* line 209
message == data[1].choices[1].message

\* lines 202-220
ParseResponse ==
    /\ pc = "parse"
    /\ image_saved' = FALSE
    /\ IF data[1].choices = <<>>
       THEN Exit(1, "EmptyResponseError") /\ UNCHANGED stdout
       ELSE /\ stdout' = stdout \o ModelResponseLines(message.content)
            /\ pc' = "images"
            /\ UNCHANGED <<exit_code, failure>>
    /\ UNCHANGED <<args, environ, api_key, output_resolution, content_parts,
                   max_input_dim, loaded, payload, data, image_bytes, out_file,
                   effects>>

\* lines 229-232 and 243-246: decode the base64 payload and save it; an
\* exception of save_image is not caught
DecodeAndSave(url, next) ==
    /\ image_bytes' = <<b64decode(url.body)>>
    /\ LET r == save_image(image_bytes'[1]) IN
       IF r.raised
       THEN /\ Exit(1, "UncaughtException")
            /\ UNCHANGED <<out_file, effects, image_saved>>
       ELSE /\ out_file' = r.file
            /\ effects' = Append(effects, Op("write", output_path))
            /\ image_saved' = TRUE
            /\ pc' = next
            /\ UNCHANGED <<exit_code, failure>>

\* lines 222-233
SaveFromImages ==
    /\ pc = "images"
    /\ LET i == ScanImages(message.images, 1) IN
       IF i = 0
       THEN /\ pc' = "fallback"
            /\ UNCHANGED <<image_bytes, out_file, effects, image_saved,
                           exit_code, failure>>
       ELSE DecodeAndSave(message.images[i].url, "fallback")
    /\ UNCHANGED <<args, environ, api_key, output_resolution, content_parts,
                   max_input_dim, loaded, payload, data, stdout>>

\* lines 235-247
SaveFromContent ==
    /\ pc = "fallback"
    /\ LET i == IF FallbackApplies(image_saved, message.content)
                THEN ScanContent(message.content.parts, 1)
                ELSE 0
       IN
       IF i = 0
       THEN /\ pc' = "finish"
            /\ UNCHANGED <<image_bytes, out_file, effects, image_saved,
                           exit_code, failure>>
       ELSE DecodeAndSave(message.content.parts[i].url, "finish")
    /\ UNCHANGED <<args, environ, api_key, output_resolution, content_parts,
                   max_input_dim, loaded, payload, data, stdout>>

\* lines 249-257
Finish ==
    /\ pc = "finish"
    /\ IF FinalStatus(image_saved) = 0
       THEN /\ stdout' = stdout \o SuccessLines(output_path)
            /\ Exit(0, "none")
       ELSE /\ Exit(1, "NoImageError")
            /\ UNCHANGED stdout
    /\ UNCHANGED <<args, environ, api_key, output_resolution, content_parts,
                   max_input_dim, loaded, payload, data, image_saved,
                   image_bytes, out_file, effects>>

Next ==
    \/ GetApiKey
    \/ SetUpOutputPath
    \/ CheckInputImages
    \/ LoadInputImage
    \/ AutoDetectResolution
    \/ BuildRequest
    \/ Post
    \/ ParseResponse
    \/ SaveFromImages
    \/ SaveFromContent
    \/ Finish

Spec == Init /\ [][Next]_vars

---------------------------------------------------------------------------
(* save_image on its own: every image of Images, and bytes that are no    *)
(* image, handed to one call.                                             *)

InitSave ==
    /\ args = [prompt |-> "a red fox", filename |-> <<"out.png">>,
               input_images |-> <<>>, resolution |-> DefaultResolution,
               api_key |-> "sk-arg", model |-> DEFAULT_MODEL]
    /\ environ = ""
    /\ pc = "save_image"
    /\ api_key = "sk-arg"
    /\ output_resolution = DefaultResolution
    /\ content_parts = <<>>
    /\ max_input_dim = 0
    /\ loaded = 0
    /\ payload = <<>>
    /\ data = <<>>
    /\ image_saved = FALSE
    /\ image_bytes \in {<<b>> : b \in ImageBytes}
    /\ out_file = <<>>
    /\ effects = <<>>
    /\ stdout = <<>>
    /\ failure = "none"
    /\ exit_code = -1

\* lines 50-62
SaveImageCall ==
    /\ pc = "save_image"
    /\ LET r == save_image(image_bytes[1]) IN
       IF r.raised
       THEN pc' = "raised" /\ UNCHANGED <<out_file, effects>>
       ELSE /\ pc' = "saved"
            /\ out_file' = r.file
            /\ effects' = Append(effects, Op("write", output_path))
    /\ UNCHANGED <<args, environ, api_key, output_resolution, content_parts,
                   max_input_dim, loaded, payload, data, image_saved,
                   image_bytes, stdout, failure, exit_code>>

NextSave == SaveImageCall

SpecSave == InitSave /\ [][NextSave]_vars

---------------------------------------------------------------------------
(* What the properties below speak of *)

Count(op) == Cardinality({i \in DOMAIN effects : effects[i].op = op})

Exited == pc = "exited"

\* the run read a first choice's message
HasMessage == data # <<>> /\ data[1].choices # <<>>

NumInputs == Len(args.input_images)

Min(S) == CHOOSE x \in S : \A y \in S : x <= y

\* positions of the data-URL entries of a reply list
DataEntries(list, tagged) ==
    {i \in DOMAIN list :
        /\ list[i].isdict
        /\ list[i].url.scheme = "data"
        /\ tagged => list[i].type = "image_url"}

\* the greatest width or height over the input images
MaxDimension ==
    LET dims == UNION {{Files[args.input_images[i]].width,
                        Files[args.input_images[i]].height} : i \in 1..NumInputs}
    IN CHOOSE m \in dims : \A d \in dims : m >= d

LinesOf(kind) == {i \in DOMAIN stdout : stdout[i].line = kind}

---------------------------------------------------------------------------
(* C1: a run exits with code 0 exactly when one image file was written at *)
(* the output path; every run that ends in a fatal error exits with code  *)
(* 1 and has written no image file.                                       *)
C1_NoDegradedSuccess ==
    Exited =>
        /\ exit_code \in {0, 1}
        /\ exit_code = 0 <=> (Count("write") = 1 /\ out_file # <<>>)
        /\ exit_code = 0 <=> failure = "none"
        /\ failure # "none" =>
              exit_code = 1 /\ Count("write") = 0 /\ out_file = <<>>

C1_Witness == Exited /\ exit_code = 0 /\ Count("write") = 1 /\ out_file # <<>>

(* C2: a run makes at most one POST and at most one output file write,    *)
(* also when both message.images and the content list hold data-URL       *)
(* images.                                                                *)
C2_AtMostOnePostAndOneWrite == Count("post") <= 1 /\ Count("write") <= 1

C2_Witness ==
    /\ Exited
    /\ HasMessage
    /\ ~message.content.isstr
    /\ DataEntries(message.images, FALSE) # {}
    /\ DataEntries(message.content.parts, TRUE) # {}
    /\ Count("post") = 1
    /\ Count("write") = 1

(* C3, as claimed: when the first choice's content is a plain string the  *)
(* run always ends in NoImageError with exit code 1 and no output file,   *)
(* whatever the message-level images list holds.                          *)
C3_StringContentAlwaysFails ==
    (Exited /\ HasMessage /\ message.content.isstr) =>
        failure = "NoImageError" /\ exit_code = 1 /\ out_file = <<>>

(* C3, amended: when the first choice's content is a plain string and the *)
(* message-level images list holds no data-URL entry, the run ends in     *)
(* NoImageError with exit code 1 and no output file written.              *)
C3_StringContentWithoutImagesFails ==
    (/\ Exited
     /\ HasMessage
     /\ message.content.isstr
     /\ DataEntries(message.images, FALSE) = {}) =>
        /\ failure = "NoImageError"
        /\ exit_code = 1
        /\ out_file = <<>>
        /\ Count("write") = 0

C3_Witness ==
    /\ Exited
    /\ HasMessage
    /\ message.content.isstr
    /\ message.content.text # ""
    /\ message.images # <<>>
    /\ DataEntries(message.images, FALSE) = {}
    /\ failure = "NoImageError"

(* C4: image_config.image_size is the caller's resolution when it is      *)
(* 0.5K, 2K or 4K; otherwise, with at least one input image of maximum    *)
(* dimension M, it is 4K when M >= 3000, 2K when 1500 <= M < 3000 and 1K  *)
(* when M < 1500; with no input image it is the caller's value.           *)
C4_ResolutionRule ==
    payload # <<>> =>
        payload[1].image_config.image_size =
            IF args.resolution \in {"0.5K", "2K", "4K"} THEN args.resolution
            ELSE IF NumInputs >= 1
                 THEN IF MaxDimension >= 3000 THEN "4K"
                      ELSE IF MaxDimension >= 1500 THEN "2K"
                      ELSE "1K"
                 ELSE args.resolution

C4_Witness ==
    /\ payload # <<>>
    /\ args.resolution = "1K"
    /\ NumInputs = 2
    /\ MaxDimension = 1500
    /\ payload[1].image_config.image_size = "2K"

(* C5, as claimed: when more than 14 input images are given the run fails *)
(* with exit code 1 before any file access: no input file was read, no    *)
(* parent directory of the output path was created and no request sent.   *)
C5_TooManyFailsBeforeAnyFileAccess ==
    failure = "TooManyInputImages" =>
        /\ exit_code = 1
        /\ Count("read") = 0
        /\ Count("post") = 0
        /\ \A i \in DOMAIN effects :
              ~(effects[i].op = "mkdir" /\ effects[i].target # <<>>)

(* C6: the POST is issued only after every input image was read and       *)
(* loaded; a run in which an input image fails to load ends with exit     *)
(* code 1, no request built or sent and no output file written.           *)
C6_PostOnlyAfterAllInputsLoaded ==
    /\ Count("post") >= 1 =>
          /\ \A i \in 1..NumInputs : Files[args.input_images[i]].ok
          /\ LET p == Min({i \in DOMAIN effects : effects[i].op = "post"}) IN
             Cardinality({i \in 1..p : effects[i].op = "read"}) = NumInputs
    /\ failure = "ImageLoadError" =>
          /\ exit_code = 1
          /\ payload = <<>>
          /\ Count("post") = 0
          /\ Count("write") = 0
          /\ out_file = <<>>

C6_Witness ==
    /\ failure = "ImageLoadError"
    /\ loaded >= 1
    /\ content_parts # <<>>
    /\ Count("post") = 0

\* the base64 payload the two location rules of the specification name:
\* <<>> when neither rule finds a data-URL image
Located ==
    IF DataEntries(message.images, FALSE) # {}
    THEN <<message.images[Min(DataEntries(message.images, FALSE))].url.body>>
    ELSE IF /\ ~message.content.isstr
            /\ DataEntries(message.content.parts, TRUE) # {}
    THEN <<message.content.parts[
               Min(DataEntries(message.content.parts, TRUE))].url.body>>
    ELSE <<>>

(* C7: the output image is the first data-URL entry of message.images     *)
(* (entries that are no objects or hold no data URL are skipped); the     *)
(* content list is used only when message.images gave none, and then its  *)
(* first image_url entry with a data URL; when neither gives an image the *)
(* run ends in NoImageError with exit code 1.                             *)
C7_PrimaryThenFallback ==
    (Exited /\ HasMessage) =>
        IF Located = <<>>
        THEN failure = "NoImageError" /\ exit_code = 1 /\ out_file = <<>>
        ELSE /\ image_bytes = <<b64decode(Located[1])>>
             /\ IF image_bytes[1].ok
                THEN /\ exit_code = 0
                     /\ out_file = save_image(image_bytes[1]).file
                     /\ Count("write") = 1
                ELSE exit_code = 1 /\ out_file = <<>>

C7_Witness ==
    /\ Exited
    /\ HasMessage
    /\ message.images # <<>>
    /\ DataEntries(message.images, FALSE) = {}
    /\ ~message.content.isstr
    /\ Len(message.content.parts) = 2
    /\ Min(DataEntries(message.content.parts \o <<ImagePart(DataUrl("b64-junk"))>>,
                       TRUE)) = 2
    /\ exit_code = 0
    /\ out_file # <<>>

(* C8: "Image saved: <path>" and "MEDIA: <path>" are printed, in that     *)
(* order and with the same absolute resolved output path, in exactly the  *)
(* runs that wrote the output file, and after the write; no run that      *)
(* exits with code 1 prints a MEDIA line.                                 *)
C8_SuccessLinesOnlyAfterWrite ==
    /\ (LinesOf("Image saved") # {} \/ LinesOf("MEDIA") # {}) =>
          Count("write") = 1 /\ out_file # <<>>
    /\ Exited =>
          IF Count("write") >= 1
          THEN /\ exit_code = 0
               /\ Cardinality(LinesOf("Image saved")) = 1
               /\ Cardinality(LinesOf("MEDIA")) = 1
               /\ LinesOf("MEDIA") = {Len(stdout)}
               /\ LinesOf("Image saved") = {Len(stdout) - 1}
               /\ Last(stdout).arg = Cwd \o args.filename
               /\ Last(stdout).arg[1] = "/"
               /\ stdout[Len(stdout) - 1].arg = Last(stdout).arg
          ELSE LinesOf("Image saved") = {} /\ LinesOf("MEDIA") = {}
    /\ exit_code = 1 => LinesOf("MEDIA") = {}

C8_Witness ==
    /\ Exited
    /\ exit_code = 0
    /\ args.filename = <<"gen", "art", "out.png">>
    /\ LinesOf("MEDIA") # {}
    /\ LinesOf("Model response") # {}

(* C9: the one user message has N+1 content entries: the N image_url      *)
(* entries in the order of the input paths, then one text entry whose     *)
(* text is the prompt unchanged; the resolution is carried only in        *)
(* image_config.image_size.                                               *)
C9_PayloadShape ==
    payload # <<>> =>
        LET body    == payload[1]
            content == body.messages[1].content
        IN  /\ NumInputs <= 14
            /\ Len(body.messages) = 1
            /\ body.messages[1].role = "user"
            /\ Len(content) = NumInputs + 1
            /\ \A i \in 1..NumInputs :
                  /\ content[i].type = "image_url"
                  /\ content[i].image_url.url =
                        [scheme |-> "data",
                         body   |-> <<"png", args.input_images[i]>>]
            /\ content[NumInputs + 1].type = "text"
            /\ content[NumInputs + 1] = [type |-> "text", text |-> args.prompt]
            /\ body.image_config.image_size = output_resolution

C9_Witness ==
    /\ payload # <<>>
    /\ NumInputs = 2
    /\ args.input_images[1] # args.input_images[2]
    /\ args.resolution = "4K"
    /\ Len(payload[1].messages[1].content) = 3

\* PIL modes with an alpha band
HasAlpha(mode) == mode \in {"RGBA", "LA"}

(* C10, as claimed: the file save_image writes is RGB for every source    *)
(* colour model, and whenever the source colour model has an alpha        *)
(* channel (not only mode RGBA) a fully transparent pixel is white in the *)
(* written file.                                                          *)
C10_TransparentBecomesWhite ==
    pc = "saved" =>
        LET source == image_bytes[1].image IN
        /\ out_file[1].mode = "RGB"
        /\ Len(out_file[1].px) = 3
        /\ (HasAlpha(source.mode) /\ Last(source.px) = 0) =>
              out_file[1].px = <<255, 255, 255>>

====
